---- MODULE Spec2Model ----
(***************************************************************************)
(* Model of github.com/s0rg/retry: the Config built by New (options, then  *)
(* validate), the retry loop of Config.Single and the two compositions     *)
(* Config.Chain (sequential) and Config.Parallel (errgroup fan-out).       *)
(* Spec runs the calls, SpecNew runs New alone and SpecDelay applies       *)
(* Config.stepDuration to one attempt index after the other.               *)
(*                                                                         *)
(* The durations of the Config are integers counting nanoseconds, as       *)
(* time.Duration does.  What stepDuration computes from them is an int64   *)
(* kept at its width: eight bytes, least significant first, in two's       *)
(* complement, with the wrapping sum and product of Go.                    *)
(* An error value is a non-empty sequence of strings: a sentinel made by   *)
(* errors.New is a one-element sequence and fmt.Errorf("%s: %w", tag, e)   *)
(* puts the tag in front of e, so the tail of a sequence is what Unwrap    *)
(* returns.  The nil error is the empty sequence.                          *)
(***************************************************************************)
EXTENDS Integers, Sequences, FiniteSets, TLC

VARIABLES
    opts,    \* the options New was called with
    cfg,     \* the Config
    phase,   \* "init" before New, "ready", "running" inside a call, "done"
    kind,    \* the call in progress or last returned: single, chain, parallel
    steps,   \* the Steps of the call: [Name, Func], Func a script of results
    pc,      \* per step: idle, ready, fn, sleep, returned, done
    n,       \* per step: the loop variable n of Single
    calls,   \* per step: how often Func was invoked
    err,     \* per step: the variable err of Single
    ret,     \* per step: what Single returned
    delays,  \* per step: the durations passed to time.Sleep
    logs,    \* per step: the records written by log.Printf
    next,    \* the loop variable i of Chain and Parallel (1-based)
    egErr,   \* errgroup.Group.err
    result,  \* what the call returned
    firstErr \* the step whose Single was the first to return an error, or 0

vars == <<opts, cfg, phase, kind, steps, pc, n, calls, err, ret, delays, logs,
          next, egErr, result, firstErr>>

runVars == <<kind, steps, pc, n, calls, err, ret, delays, logs,
             next, egErr, result, firstErr>>

(***************************************************************************)
(* Bounds of the model.                                                    *)
(***************************************************************************)
MaxCount == 2
MaxSteps == 2
MaxPar == 1
MaxOpts == 4
MaxIndex == 34

(***************************************************************************)
(* Program constants (config.go).                                          *)
(***************************************************************************)
Simple == 0
Linear == 1
Exponential == 2
\* The newest revision of config.go adds a fourth mode and the constant two.
Fibonacci == 3
two == 2

minParallel == 0
minCount == 1
Millisecond == 1000000
Second == 1000000000
minSleep == Second
minDuration == 0

(***************************************************************************)
(* Errors.                                                                 *)
(***************************************************************************)
Nil == <<>>

errFail == <<"test fail">>
errFatal == <<"custom fatal error">>

\* fmt.Errorf("%s: %w", tag, e)
Wrap(tag, e) == <<tag>> \o e

errWrapped == Wrap("wrapped", errFatal)

\* errors.Is(e, target): e or one of the errors it wraps is target.
Is(e, target) ==
    IF e = Nil \/ target = Nil
    THEN e = target
    ELSE \E i \in 1..Len(e) : SubSeq(e, i, Len(e)) = target

(***************************************************************************)
(* Options (option.go) and New/validate (config.go).                       *)
(***************************************************************************)
ZeroConfig ==
    [fatal |-> <<>>, sleep |-> 0, jitter |-> 0, count |-> 0,
     parallelism |-> 0, mode |-> Simple, verbose |-> FALSE]

Count(v) == [op |-> "Count", v |-> v]
Sleep(d) == [op |-> "Sleep", v |-> d]
Jitter(d) == [op |-> "Jitter", v |-> d]
Verbose(b) == [op |-> "Verbose", b |-> b]
Parallelism(v) == [op |-> "Parallelism", v |-> v]
Mode(m) == [op |-> "Mode", v |-> m]
Fatal(errs) == [op |-> "Fatal", errs |-> errs]

\* o(c): every option sets one field; Fatal appends its errors.
Apply(o, c) ==
    CASE o.op = "Count" -> [c EXCEPT !.count = o.v]
      [] o.op = "Sleep" -> [c EXCEPT !.sleep = o.v]
      [] o.op = "Jitter" -> [c EXCEPT !.jitter = o.v]
      [] o.op = "Verbose" -> [c EXCEPT !.verbose = o.b]
      [] o.op = "Parallelism" -> [c EXCEPT !.parallelism = o.v]
      [] o.op = "Mode" -> [c EXCEPT !.mode = o.v]
      [] o.op = "Fatal" -> [c EXCEPT !.fatal = c.fatal \o o.errs]

RECURSIVE ApplyAll(_, _)
ApplyAll(os, c) ==
    IF os = <<>> THEN c
    ELSE ApplyAll(Tail(os), Apply(Head(os), c))

\* Variant: a sleep of zero passes validation.
validateLax(c) ==
    LET c1 == IF c.count < minCount THEN [c EXCEPT !.count = minCount] ELSE c
        c2 == IF c1.sleep < minDuration THEN [c1 EXCEPT !.sleep = minSleep] ELSE c1
        c3 == IF c2.jitter < minDuration THEN [c2 EXCEPT !.jitter = minDuration] ELSE c2
        c4 == IF c3.parallelism < minParallel
              THEN [c3 EXCEPT !.parallelism = minParallel] ELSE c3
    IN  c4

\* Variant: a sleep below minSleep is raised to it.
validateFloor(c) ==
    LET c1 == IF c.count < minCount THEN [c EXCEPT !.count = minCount] ELSE c
        c2 == IF c1.sleep < minSleep THEN [c1 EXCEPT !.sleep = minSleep] ELSE c1
        c3 == IF c2.jitter < minDuration THEN [c2 EXCEPT !.jitter = minDuration] ELSE c2
        c4 == IF c3.parallelism < minParallel
              THEN [c3 EXCEPT !.parallelism = minParallel] ELSE c3
    IN  c4

\* c.validate()
validate(c) ==
    LET c1 == IF c.count < minCount THEN [c EXCEPT !.count = minCount] ELSE c
        c2 == IF c1.sleep <= minDuration THEN [c1 EXCEPT !.sleep = minSleep] ELSE c1
        c3 == IF c2.jitter < minDuration THEN [c2 EXCEPT !.jitter = minDuration] ELSE c2
        c4 == IF c3.parallelism < minParallel
              THEN [c3 EXCEPT !.parallelism = minParallel] ELSE c3
    IN  c4

\* Variant: New forgets to validate.
NewConfigRaw(os) == ApplyAll(os, ZeroConfig)

\* New: the options in their order on a zero Config, then validate.
NewConfig(os) == validate(ApplyAll(os, ZeroConfig))

(***************************************************************************)
(* The option values the model draws from.                                 *)
(***************************************************************************)
CountVals == {-10, 0, MaxCount}
SleepVals == {-Second, 0, Millisecond}
JitterVals == {-Millisecond, 0, Millisecond}
ParVals == {-6, MaxPar}
ModeVals == {Linear}
FatalVals == {<<errFatal>>}

Options ==
    {Count(v) : v \in CountVals} \cup {Sleep(d) : d \in SleepVals}
    \cup {Jitter(d) : d \in JitterVals} \cup {Verbose(b) : b \in BOOLEAN}
    \cup {Parallelism(v) : v \in ParVals} \cup {Mode(m) : m \in ModeVals}
    \cup {Fatal(f) : f \in FatalVals}

SeqsUpTo(S, k) == UNION {[1..m -> S] : m \in 0..k}

AllOpts == SeqsUpTo(Options, MaxOpts)

Init ==
    /\ opts = <<>>
    /\ cfg = ZeroConfig
    /\ phase = "init"
    /\ kind = "none"
    /\ steps = <<>>
    /\ pc = <<>>
    /\ n = <<>>
    /\ calls = <<>>
    /\ err = <<>>
    /\ ret = <<>>
    /\ delays = <<>>
    /\ logs = <<>>
    /\ next = 0
    /\ egErr = Nil
    /\ result = Nil
    /\ firstErr = 0

\* New(opts...) with any options.
New ==
    /\ phase = "init"
    /\ \E os \in AllOpts :
          /\ opts' = os
          /\ cfg' = NewConfig(os)
    /\ phase' = "ready"
    /\ UNCHANGED runVars

NextNew == New

SpecNew == Init /\ [][NextNew]_vars

(***************************************************************************)
(* Config.isFatal and Config.stepDuration.                                 *)
(***************************************************************************)
\* Variant: the loop over c.fatal skips its first entry.
isFatalSkip(c, e) == \E i \in 2..Len(c.fatal) : Is(c.fatal[i], e)

\* errors.Is(c.fatal[i], err) for some i: the sentinel is the first argument.
isFatal(c, e) == \E i \in 1..Len(c.fatal) : Is(c.fatal[i], e)

\* int64 and time.Duration: eight bytes, least significant first.
Width == 8
Byte == 256

\* The bytes from position i on of the columns cols, every column taking
\* the carry c of the one before; the carry out of the last byte is lost.
\* The sum s of a column and its carry is taken once, as the one element of
\* a set, and so are the operands of the operators below.
RECURSIVE Carry(_, _, _)
Carry(cols, i, c) ==
    IF i > Len(cols)
    THEN <<>>
    ELSE CHOOSE r \in {<<s % Byte>> \o Carry(cols, i + 1, s \div Byte) :
                          s \in {cols[i] + c}} : TRUE

\* time.Duration(v) and int64(v) of an int v with 0 <= v < 2^31.
RECURSIVE I64From(_, _)
I64From(v, i) ==
    IF i > Width THEN <<>> ELSE <<v % Byte>> \o I64From(v \div Byte, i + 1)

I64(v) == I64From(v, 1)

\* a + b of int64: the sum modulo 2^64.
Add64(a, b) ==
    CHOOSE r \in {Carry(cols, 1, 0) :
                     cols \in {[i \in 1..Width |-> x[i] + y[i]] :
                                  x \in {a}, y \in {b}}} : TRUE

\* The sum of a[i] * b[k+1-i] for i = 1..j: column k of the long product.
RECURSIVE Column(_, _, _, _)
Column(a, b, k, j) ==
    IF j = 0 THEN 0 ELSE a[j] * b[k + 1 - j] + Column(a, b, k, j - 1)

\* a * b of int64: the product modulo 2^64.
Mul64(a, b) ==
    CHOOSE r \in {Carry(cols, 1, 0) :
                     cols \in {[k \in 1..Width |-> Column(x, y, k, k)] :
                                  x \in {a}, y \in {b}}} : TRUE

\* a < 0 of int64: the sign bit is set.
Negative(a) == a[Width] >= Byte \div 2

\* a < b of two int64 of the same sign, compared from the top byte down.
RECURSIVE Below(_, _, _)
Below(a, b, i) ==
    IF i = 0
    THEN FALSE
    ELSE a[i] < b[i] \/ (a[i] = b[i] /\ Below(a, b, i - 1))

\* a < b of int64.
Less64(a, b) ==
    IF Negative(a) # Negative(b) THEN Negative(a) ELSE Below(a, b, Width)

\* int64(math.Pow(two, float64(v))) for 0 <= v <= 62, where the power is an
\* exact float64 within the range of int64: the bit v is set.
ipow2(v) == [i \in 1..Width |-> IF i = (v \div 8) + 1 THEN two ^ (v % 8) ELSE 0]

\* <<fibonacci(k), fibonacci(k+1)>>, every sum an int64 sum.
RECURSIVE fibPair(_)
fibPair(k) ==
    IF k = 0
    THEN <<I64(0), I64(1)>>
    ELSE CHOOSE r \in {<<p[2], Add64(p[1], p[2])>> : p \in {fibPair(k - 1)}} :
             TRUE

\* fibonacci(n) for n >= 0: n below two, else fibonacci(n-1) + fibonacci(n-two).
\* The value of the doubly recursive function, computed along the sequence.
fibonacci(k) == fibPair(k)[1]

\* c.stepDuration(n): the switch over c.mode and the return after it.
stepDuration(c, k) ==
    CASE c.mode = Linear ->
             Add64(Mul64(I64(c.sleep), I64(k)), I64(c.jitter))
      [] c.mode = Exponential ->
             Add64(Mul64(I64(c.sleep), ipow2(k)), I64(c.jitter))
      [] c.mode = Fibonacci ->
             Add64(Mul64(I64(c.sleep), fibonacci(k)), I64(c.jitter))
      [] OTHER ->
             Add64(I64(c.sleep), Mul64(I64(c.jitter), I64(k)))

(***************************************************************************)
(* Actions of the steps: a script is the sequence of errors the action     *)
(* returns on its first invocations; every later invocation returns nil    *)
(* (the failer of config_test.go, with one error per invocation).          *)
(***************************************************************************)
ScriptResult(script, j) == IF j <= Len(script) THEN script[j] ELSE Nil

Failer(e, lim) == [j \in 1..lim |-> e]

Names == <<"A", "B", "C", "D">>

Tasks == 1..Len(steps)

\* Variant: the closure sees the Step of the last round of the loop.
StepLast(i) == steps[Len(steps)]

\* step := steps[i]: the Step that Single number i of a call works on.
Step(i) == steps[i]

\* The options of the configurations the calls run under.
RunOpts ==
    {<<Count(c), Sleep(Millisecond), Parallelism(p), Fatal(<<errFatal>>)>> :
        c \in 1..MaxCount, p \in 0..MaxPar}
    \cup {<<Count(MaxCount), Sleep(Millisecond)>>}
    \cup {<<Count(MaxCount), Sleep(Millisecond), Jitter(2 * Millisecond),
            Mode(m), Verbose(TRUE), Fatal(<<errWrapped>>)>> :
            m \in {Simple, Linear, Exponential, Fibonacci}}

\* The scripts of Single, and those of the steps of Chain and Parallel.
SingleScripts ==
    {Failer(e, lim) : e \in {errFail, errFatal, errWrapped}, lim \in 0..MaxCount}
    \cup {<<errFail, errFatal>>, <<errFail, errWrapped, errFail>>}

\* A step succeeds at once, fails once, or always fails, fatally or not.
StepScripts ==
    {Failer(errFail, lim) : lim \in {0, 1, MaxCount}}
    \cup {Failer(errFatal, MaxCount)}

StepLists ==
    UNION {[1..m -> StepScripts] : m \in 0..MaxSteps}

MakeSteps(scripts) ==
    [i \in 1..Len(scripts) |-> [Name |-> Names[i], Func |-> scripts[i]]]

\* New(opts...) with the options of a run.
NewRun ==
    /\ phase = "init"
    /\ \E os \in RunOpts :
          /\ opts' = os
          /\ cfg' = NewConfig(os)
    /\ phase' = "ready"
    /\ UNCHANGED runVars

\* The state of the steps when a call begins.
Begin(k, ss, first) ==
    /\ phase = "ready"
    /\ phase' = "running"
    /\ kind' = k
    /\ steps' = ss
    /\ pc' = [i \in 1..Len(ss) |-> first]
    /\ n' = [i \in 1..Len(ss) |-> 0]
    /\ calls' = [i \in 1..Len(ss) |-> 0]
    /\ err' = [i \in 1..Len(ss) |-> Nil]
    /\ ret' = [i \in 1..Len(ss) |-> Nil]
    /\ delays' = [i \in 1..Len(ss) |-> <<>>]
    /\ logs' = [i \in 1..Len(ss) |-> <<>>]
    /\ next' = 1
    /\ egErr' = Nil
    /\ result' = Nil
    /\ firstErr' = 0
    /\ UNCHANGED <<opts, cfg>>

(***************************************************************************)
(* Config.Single, for step t: the loop test, the call of fn, the sleep.    *)
(***************************************************************************)
\* Variant: the loop gives up one attempt early.
LoopTestShort(c, k) == k < c.count - 1

\* Variant: the loop makes one attempt more.
LoopTestLong(c, k) == k <= c.count

\* Variant: the loop also ends once a sibling has given an error to the
\* group, as under a context the group cancels.
LoopTestGroup(c, k) == k < c.count /\ egErr = Nil

\* for ...; n < c.count; ... : call fn, or leave the loop and return.
LoopTest(c, k) == k < c.count

\* if n < c.count { time.Sleep(...) }
SleepTest(c, k) == k < c.count

\* Variant: the error is dropped after the loop, `return nil`.
SingleErrNone(name, e) == Nil

\* return fmt.Errorf("%s: %w", name, err) after the loop.
SingleErr(name, e) == Wrap(name, e)

\* The first step to return an error, once the Single of step t returns e.
FirstOf(first, t, e) == IF first = 0 /\ e # Nil THEN t ELSE first

\* The loop test with n = k and err = e.
LoopHead(t, k, e) ==
    IF LoopTest(cfg, k)
    THEN /\ pc' = [pc EXCEPT ![t] = "fn"]
         /\ calls' = [calls EXCEPT ![t] = @ + 1]
         /\ ret' = ret
         /\ firstErr' = firstErr
    ELSE /\ pc' = [pc EXCEPT ![t] = "returned"]
         /\ calls' = calls
         /\ ret' = [ret EXCEPT ![t] = SingleErr(Step(t).Name, e)]
         /\ firstErr' = FirstOf(firstErr, t, SingleErr(Step(t).Name, e))

\* Single is entered: n := 0.
Enter(t) ==
    /\ pc[t] = "ready"
    /\ LoopHead(t, 0, err[t])
    /\ UNCHANGED <<opts, cfg, phase, kind, steps, n, err, delays, logs,
                   next, egErr, result>>

\* Variant: the sleep is computed from n itself.
SleepIndexSame(k) == k

\* c.stepDuration(n + 1): the attempt index of the sleep after attempt n.
SleepIndex(k) == k + 1

\* Variant: an error once stored in err is kept: a later result of fn does
\* not replace it.
ErrSetFirst(old, e) == IF old = Nil THEN e ELSE old

\* err = fn(): the result of fn replaces what err held.
ErrSet(old, e) == e

\* fn returns: success, a fatal error, or an error to sleep on.
FnReturn(t) ==
    /\ pc[t] = "fn"
    /\ LET e == ErrSet(err[t], ScriptResult(Step(t).Func, calls[t])) IN
       /\ err' = [err EXCEPT ![t] = e]
       /\ IF e = Nil
          THEN /\ pc' = [pc EXCEPT ![t] = "returned"]
               /\ ret' = [ret EXCEPT ![t] = Nil]
               /\ UNCHANGED <<n, calls, delays, logs, firstErr>>
          ELSE IF isFatal(cfg, e)
          THEN /\ pc' = [pc EXCEPT ![t] = "returned"]
               /\ ret' = [ret EXCEPT ![t] = SingleErr(Step(t).Name, e)]
               /\ firstErr' = FirstOf(firstErr, t, SingleErr(Step(t).Name, e))
               /\ UNCHANGED <<n, calls, delays, logs>>
          ELSE /\ logs' = IF cfg.verbose
                          THEN [logs EXCEPT ![t] = Append(@, <<Step(t).Name, n[t], e>>)]
                          ELSE logs
               /\ IF SleepTest(cfg, n[t])
                  THEN /\ pc' = [pc EXCEPT ![t] = "sleep"]
                       /\ delays' = [delays EXCEPT
                                       ![t] = Append(@, stepDuration(cfg, SleepIndex(n[t])))]
                       /\ UNCHANGED <<n, calls, ret, firstErr>>
                  ELSE /\ n' = [n EXCEPT ![t] = @ + 1]
                       /\ LoopHead(t, n[t] + 1, e)
                       /\ delays' = delays
    /\ UNCHANGED <<opts, cfg, phase, kind, steps, next, egErr, result>>

\* Variant: every retry is also taken off c.count, the Config itself.
WakeCountDown(t) ==
    /\ pc[t] = "sleep"
    /\ n' = [n EXCEPT ![t] = @ + 1]
    /\ cfg' = [cfg EXCEPT !.count = @ - 1]
    /\ LoopHead(t, n[t] + 1, err[t])
    /\ UNCHANGED <<opts, phase, kind, steps, err, delays, logs,
                   next, egErr, result>>

\* time.Sleep returns: n++ and the loop test.
Wake(t) ==
    /\ pc[t] = "sleep"
    /\ n' = [n EXCEPT ![t] = @ + 1]
    /\ LoopHead(t, n[t] + 1, err[t])
    /\ UNCHANGED <<opts, cfg, phase, kind, steps, err, delays, logs,
                   next, egErr, result>>

(***************************************************************************)
(* Config.Single called on its own.                                        *)
(***************************************************************************)
CallSingle ==
    \E script \in SingleScripts :
        Begin("single", <<[Name |-> "test-case", Func |-> script]>>, "ready")

SingleReturn ==
    /\ phase = "running"
    /\ kind = "single"
    /\ pc[1] = "returned"
    /\ pc' = [pc EXCEPT ![1] = "done"]
    /\ result' = ret[1]
    /\ phase' = "done"
    /\ UNCHANGED <<opts, cfg, kind, steps, n, calls, err, ret, delays, logs,
                   next, egErr, firstErr>>

(***************************************************************************)
(* Config.Chain: Single for one step after the other.                      *)
(***************************************************************************)
\* Variant: every Single of the chain is started at once, as with
\* `go c.Single(...)` in the loop.
CallChainEager ==
    \E scripts \in StepLists : Begin("chain", MakeSteps(scripts), "ready")

\* Chain is called: no Single has been called yet.
CallChain ==
    \E scripts \in StepLists : Begin("chain", MakeSteps(scripts), "idle")

\* for ...; i < len(steps); ... : call Single for steps[i], or return nil.
ChainLoop ==
    /\ phase = "running"
    /\ kind = "chain"
    /\ \A t \in Tasks : pc[t] \in {"idle", "done"}
    /\ IF next <= Len(steps)
       THEN /\ pc' = [pc EXCEPT ![next] = "ready"]
            /\ UNCHANGED <<phase, result>>
       ELSE /\ phase' = "done"
            /\ result' = Nil
            /\ pc' = pc
    /\ UNCHANGED <<opts, cfg, kind, steps, n, calls, err, ret, delays, logs,
                   next, egErr, firstErr>>

\* Variant: the error of Single is not looked at.
ChainFailsNever(e) == FALSE

\* if err = c.Single(...); err != nil
ChainFails(e) == e # Nil

\* Single has returned: return its error, or go on with i++.
ChainStep ==
    /\ phase = "running"
    /\ kind = "chain"
    /\ next <= Len(steps)
    /\ pc[next] = "returned"
    /\ pc' = [pc EXCEPT ![next] = "done"]
    /\ IF ChainFails(ret[next])
       THEN /\ result' = Wrap("chain", ret[next])
            /\ phase' = "done"
            /\ next' = next
       ELSE /\ next' = next + 1
            /\ UNCHANGED <<phase, result>>
    /\ UNCHANGED <<opts, cfg, kind, steps, n, calls, err, ret, delays, logs,
                   egErr, firstErr>>

(***************************************************************************)
(* Config.Parallel: an errgroup.Group with an optional limit.              *)
(***************************************************************************)
CallParallel ==
    \E scripts \in StepLists : Begin("parallel", MakeSteps(scripts), "idle")

\* Variant: a goroutine that is done keeps its token.
ActiveKept == {t \in Tasks : pc[t] # "idle"}

\* The goroutines of the group that hold a token of its semaphore.
Active == {t \in Tasks : pc[t] \in {"ready", "fn", "sleep", "returned"}}

\* Variant: the limit lets one goroutine too many in.
MayGoLoose(c, active) == c.parallelism > 0 => active <= c.parallelism

\* eg.SetLimit(c.parallelism) if c.parallelism > 0: may eg.Go start one more?
MayGo(c, active) == c.parallelism > 0 => active < c.parallelism

\* eg.Go(func): waits for a token, then starts the goroutine of steps[i].
ParallelGo ==
    /\ phase = "running"
    /\ kind = "parallel"
    /\ next <= Len(steps)
    /\ MayGo(cfg, Cardinality(Active))
    /\ pc' = [pc EXCEPT ![next] = "ready"]
    /\ next' = next + 1
    /\ UNCHANGED <<opts, cfg, phase, kind, steps, n, calls, err, ret, delays,
                   logs, egErr, result, firstErr>>

\* Variant: the closure drops the error of Single.
GoResultDrop(e) == Nil

\* func() error { return c.Single(step.Name, step.Func) }
GoResult(e) == e

\* Variant: every error given to the group replaces the one before.
OnceErrLast(old, e) == e

\* errOnce.Do: only the first error given to the group is kept.
OnceErr(old, e) == IF old = Nil THEN e ELSE old

\* The goroutine of step t after Single returned: keep the error, free the
\* token, wg.Done.
TaskDone(t) ==
    /\ kind = "parallel"
    /\ pc[t] = "returned"
    /\ pc' = [pc EXCEPT ![t] = "done"]
    /\ egErr' = IF GoResult(ret[t]) # Nil
                THEN OnceErr(egErr, GoResult(ret[t]))
                ELSE egErr
    /\ UNCHANGED <<opts, cfg, phase, kind, steps, n, calls, err, ret, delays,
                   logs, next, result, firstErr>>

\* Variant: Parallel does not wait for the group.
WaitOverNow(p) == TRUE

\* wg.Wait() inside eg.Wait(): every goroutine of the group is done.
WaitOver(p) == \A t \in DOMAIN p : p[t] = "done"

\* Variant: the error of the group is wrapped without the test for nil.
ParallelErrAlways(e) == Wrap("parallel", e)

\* if err = eg.Wait(); err != nil { return fmt.Errorf("parallel: %w", err) }
\* return nil
ParallelErr(e) == IF e # Nil THEN Wrap("parallel", e) ELSE Nil

\* eg.Wait() returns, and Parallel with it.
ParallelWait ==
    /\ phase = "running"
    /\ kind = "parallel"
    /\ next > Len(steps)
    /\ WaitOver(pc)
    /\ result' = ParallelErr(egErr)
    /\ phase' = "done"
    /\ UNCHANGED <<opts, cfg, kind, steps, pc, n, calls, err, ret, delays,
                   logs, next, egErr, firstErr>>

\* The caller drops the steps and the result of a call that has returned and
\* keeps the Config for its next call (the table loops of config_test.go).
Again ==
    /\ phase = "done"
    /\ phase' = "ready"
    /\ kind' = "none"
    /\ steps' = <<>>
    /\ pc' = <<>>
    /\ n' = <<>>
    /\ calls' = <<>>
    /\ err' = <<>>
    /\ ret' = <<>>
    /\ delays' = <<>>
    /\ logs' = <<>>
    /\ next' = 0
    /\ egErr' = Nil
    /\ result' = Nil
    /\ firstErr' = 0
    /\ UNCHANGED <<opts, cfg>>

Next ==
    \/ NewRun
    \/ CallSingle
    \/ CallChain
    \/ CallParallel
    \/ \E t \in Tasks : Enter(t)
    \/ \E t \in Tasks : FnReturn(t)
    \/ \E t \in Tasks : Wake(t)
    \/ SingleReturn
    \/ ChainLoop
    \/ ChainStep
    \/ ParallelGo
    \/ \E t \in Tasks : TaskDone(t)
    \/ ParallelWait
    \/ Again

Spec == Init /\ [][Next]_vars

\* The steps the program takes inside a call, as opposed to the caller's.
Running ==
    \/ \E t \in Tasks : Enter(t)
    \/ \E t \in Tasks : Wake(t)
    \/ SingleReturn
    \/ ChainLoop
    \/ ChainStep
    \/ ParallelGo
    \/ \E t \in Tasks : TaskDone(t)
    \/ ParallelWait
    \/ \E t \in Tasks : FnReturn(t)

\* The calls under a scheduler that does not stop while a goroutine can run:
\* an action that was invoked returns, a sleep ends, and a goroutine that is
\* ready to run is run.
SpecLive == Spec /\ WF_vars(Running)

(***************************************************************************)
(* Config.stepDuration on its own: a Config made by New and the delays of  *)
(* the attempt indices 0, 1, 2, ... in turn.  n[1] is the index reached    *)
(* and delays[1] holds stepDuration of the indices 0..n[1].                *)
(***************************************************************************)
DelayOpts ==
    {<<Sleep(s), Jitter(j), Mode(m)>> :
        s \in {Millisecond, Second}, j \in {0, Millisecond},
        m \in {Simple, Linear, Exponential, Fibonacci}}

InitDelay ==
    /\ opts \in DelayOpts
    /\ cfg = NewConfig(opts)
    /\ phase = "ready"
    /\ kind = "delay"
    /\ steps = <<>>
    /\ pc = <<>>
    /\ n = <<0>>
    /\ calls = <<>>
    /\ err = <<>>
    /\ ret = <<>>
    /\ delays = <<<<stepDuration(cfg, 0)>>>>
    /\ logs = <<>>
    /\ next = 0
    /\ egErr = Nil
    /\ result = Nil
    /\ firstErr = 0

\* c.stepDuration(n) of the next attempt index.
DelayStep ==
    /\ kind = "delay"
    /\ n[1] < MaxIndex
    /\ n' = <<n[1] + 1>>
    /\ delays' = <<Append(delays[1], stepDuration(cfg, n[1] + 1))>>
    /\ UNCHANGED <<opts, cfg, phase, kind, steps, pc, calls, err, ret, logs,
                   next, egErr, result, firstErr>>

NextDelay == DelayStep

SpecDelay == InitDelay /\ [][NextDelay]_vars

(***************************************************************************)
(* Properties of Config.Single.                                            *)
(***************************************************************************)
SingleDone == phase = "done" /\ kind = "single"

\* The script of the action of Single called on its own.
TheScript == steps[1].Func

\* None of the errors of the script is fatal for the Config.
Retryable(c, script) == \A j \in 1..Len(script) : ~isFatal(c, script[j])

\* C1 as stated: an action that fails exactly k < count times and then
\* succeeds makes Single return nil after exactly k+1 invocations, whatever
\* the errors of its failures are.
C1_AnyFailures ==
    (SingleDone /\ Len(TheScript) < cfg.count)
        => (result = Nil /\ calls[1] = Len(TheScript) + 1)

\* C1 amended: an action that fails exactly k < count times with errors that
\* are not fatal for the Config and then succeeds makes Single return nil,
\* and it is invoked exactly k+1 times.
C1_RetryUntilSuccess ==
    (SingleDone /\ Len(TheScript) < cfg.count /\ Retryable(cfg, TheScript))
        => (result = Nil /\ calls[1] = Len(TheScript) + 1)

\* Single returned nil on the last attempt the Config allows, after a
\* failure that is not fatal.
C1_Witness ==
    /\ SingleDone
    /\ cfg.count = 2
    /\ TheScript = <<errFail>>
    /\ cfg.fatal = <<errFatal>>
    /\ result = Nil
    /\ calls[1] = 2

\* C2: an action that fails on every invocation with a non-fatal error is
\* invoked exactly count times, and Single returns a non-nil error that wraps
\* the error of the action.
C2_AlwaysFailing ==
    (SingleDone /\ Len(TheScript) >= cfg.count /\ Retryable(cfg, TheScript))
        => /\ calls[1] = cfg.count
           /\ result # Nil
           /\ Is(result, TheScript[cfg.count])

\* Single gave up after two failed attempts, the most the Config allows.
C2_Witness ==
    /\ SingleDone
    /\ cfg.count = 2
    /\ TheScript = <<errFail, errFail>>
    /\ calls[1] = 2
    /\ result = Wrap("test-case", errFail)

\* The error is one of the registered sentinels itself.
Registered(c, e) == \E i \in 1..Len(c.fatal) : c.fatal[i] = e

\* C3: an action whose first invocation returns a registered fatal sentinel
\* is invoked exactly once, whatever count is, and Single returns an error
\* that wraps the sentinel.
C3_FatalSentinel ==
    (SingleDone /\ Len(TheScript) >= 1 /\ Registered(cfg, TheScript[1]))
        => /\ calls[1] = 1
           /\ result # Nil
           /\ Is(result, TheScript[1])

\* The sentinel came back on the first of two allowed attempts, with one
\* more failure scripted.
C3_Witness ==
    /\ SingleDone
    /\ cfg.count = 2
    /\ cfg.fatal = <<errFatal>>
    /\ TheScript = <<errFatal, errFatal>>
    /\ calls[1] = 1
    /\ result = Wrap("test-case", errFatal)

(***************************************************************************)
(* Properties of Config.Chain.                                             *)
(***************************************************************************)
ChainDone == phase = "done" /\ kind = "chain"

\* The last invocation of the action of step t returned nil.
Succeeded(t) == calls[t] >= 1 /\ ScriptResult(steps[t].Func, calls[t]) = Nil

\* C4: when step i is the first whose Single returns an error, Chain returns
\* that error wrapped (and with it the error of the action), no later step
\* is invoked, and every earlier step ended with a successful invocation.
C4_ChainStopsAtFirstError ==
    ChainDone =>
        \A i \in Tasks :
            (ret[i] # Nil /\ \A j \in 1..(i - 1) : ret[j] = Nil)
                => /\ result = Wrap("chain", ret[i])
                   /\ err[i] # Nil
                   /\ Is(result, err[i])
                   /\ \A j \in Tasks : j > i => calls[j] = 0
                   /\ \A j \in 1..(i - 1) : Succeeded(j)

\* The first of two steps used up its two attempts; the second, which
\* would have succeeded, was never invoked.
C4_Witness ==
    /\ ChainDone
    /\ cfg.count = 2
    /\ Len(steps) = 2
    /\ steps[1].Func = <<errFail, errFail>>
    /\ steps[2].Func = <<>>
    /\ calls = <<2, 0>>
    /\ result = Wrap("chain", Wrap("A", errFail))

(***************************************************************************)
(* Properties of Config.Parallel.                                          *)
(***************************************************************************)
ParallelDone == phase = "done" /\ kind = "parallel"

\* Invocation j of the script ends the loop of Single: success or fatal.
Ends(c, script, j) ==
    ScriptResult(script, j) = Nil \/ isFatal(c, ScriptResult(script, j))

\* The number of invocations Single makes of an action with this script: up
\* to the first invocation that ends the loop, and count if there is none.
NaturalCalls(c, script) ==
    IF \E j \in 1..c.count : Ends(c, script, j)
    THEN CHOOSE j \in 1..c.count :
            Ends(c, script, j) /\ \A i \in 1..(j - 1) : ~Ends(c, script, i)
    ELSE c.count

\* C5: Single on its own invokes an action NaturalCalls times, and so does
\* every step of a Parallel call whatever its siblings do: k+1 times if it
\* fails k < count times (not fatally) and then succeeds, count times if it
\* always fails (not fatally).
C5_ParallelRunsEveryStepOut ==
    /\ SingleDone => calls[1] = NaturalCalls(cfg, TheScript)
    /\ ParallelDone =>
          \A t \in Tasks :
              /\ calls[t] = NaturalCalls(cfg, steps[t].Func)
              /\ Retryable(cfg, steps[t].Func) =>
                    calls[t] = IF Len(steps[t].Func) < cfg.count
                               THEN Len(steps[t].Func) + 1
                               ELSE cfg.count

\* With a limit of one the second step starts after the first has failed
\* for good (a fatal error on its first attempt), and still makes its two
\* attempts.
C5_Witness ==
    /\ ParallelDone
    /\ cfg.parallelism = 1
    /\ cfg.count = 2
    /\ Len(steps) = 2
    /\ steps[1].Func = <<errFatal, errFatal>>
    /\ ret[1] # Nil
    /\ calls = <<1, 2>>
    /\ ret[2] = Nil

\* C6: Parallel returns an error if and only if the Single of at least one
\* step returned one; when it returns nil the last invocation of every
\* step succeeded.
C6_ParallelErrorIffSomeStepFailed ==
    ParallelDone =>
        /\ result # Nil <=> \E t \in Tasks : ret[t] # Nil
        /\ result = Nil => \A t \in Tasks : Succeeded(t)

\* One step succeeded, the other used up its attempts, Parallel returned an
\* error.
C6_Witness ==
    /\ ParallelDone
    /\ Len(steps) = 2
    /\ cfg.count = 2
    /\ ret[1] = Nil
    /\ calls = <<1, 2>>
    /\ ret[2] # Nil
    /\ result # Nil

\* The steps whose goroutine has been started and whose Single has not yet
\* returned.
InFlight == {t \in Tasks : pc[t] \in {"ready", "fn", "sleep"}}

\* C7: with parallelism P > 0 at most P steps are in flight in every state
\* of a Parallel call; with parallelism 0 the start of the next step is never
\* held back.
C7_ParallelismCap ==
    /\ (kind = "parallel" /\ cfg.parallelism > 0)
          => Cardinality(InFlight) <= cfg.parallelism
    /\ (kind = "parallel" /\ phase = "running" /\ cfg.parallelism = 0
            /\ next <= Len(steps))
          => ENABLED ParallelGo

\* With a limit of one the first step sleeps between attempts while the
\* second is still waiting to be started.
C7_Witness ==
    /\ kind = "parallel"
    /\ phase = "running"
    /\ cfg.parallelism = 1
    /\ Len(steps) = 2
    /\ pc = <<"sleep", "idle">>
    /\ next = 2

\* C8: when Parallel has returned, the Single of every step has returned and
\* its goroutine is over, so that no step can invoke its action or sleep any
\* more.
C8_ParallelWaitsForAll ==
    ParallelDone =>
        \A t \in Tasks :
            /\ pc[t] = "done"
            /\ ~ENABLED (Enter(t) \/ FnReturn(t) \/ Wake(t))

\* Parallel returned after both steps made all their attempts and slept in
\* between.
C8_Witness ==
    /\ ParallelDone
    /\ cfg.count = 2
    /\ Len(steps) = 2
    /\ calls = <<2, 2>>
    /\ \A t \in Tasks : Len(delays[t]) >= 1
    /\ result # Nil

(***************************************************************************)
(* Properties of New.                                                      *)
(***************************************************************************)
\* The value the options give to a field: that of the last option with this
\* name, and the zero value when there is none.
Given(os, name) ==
    LET at == {i \in 1..Len(os) : os[i].op = name}
    IN  IF at = {} THEN 0
        ELSE os[CHOOSE i \in at : \A j \in at : j <= i].v

\* C9: whatever the options are, the Config of New has count >= 1, sleep > 0,
\* jitter >= 0 and parallelism >= 0, and a field the options leave invalid
\* is set to count = 1, sleep = minSleep, jitter = 0, parallelism = 0.
C9_NewIsValid ==
    phase = "ready" =>
        /\ cfg.count >= 1
        /\ cfg.sleep > 0
        /\ cfg.jitter >= 0
        /\ cfg.parallelism >= 0
        /\ Given(opts, "Count") < 1 => cfg.count = 1
        /\ Given(opts, "Sleep") <= 0 => cfg.sleep = minSleep
        /\ Given(opts, "Jitter") < 0 => cfg.jitter = 0
        /\ Given(opts, "Parallelism") < 0 => cfg.parallelism = 0

\* New was given four invalid values and clamped each of them.
C9_Witness ==
    /\ phase = "ready"
    /\ opts = <<Count(-10), Parallelism(-6), Sleep(-Second), Jitter(-Millisecond)>>
    /\ cfg.count = 1
    /\ cfg.parallelism = 0
    /\ cfg.sleep = Second
    /\ cfg.jitter = 0

\* C10: New() without options gives count = 1, sleep = one second, jitter = 0
\* and parallelism = 0.
C10_NewDefaults ==
    (phase = "ready" /\ opts = <<>>)
        => /\ cfg.count = 1
           /\ cfg.sleep = 1000000000
           /\ cfg.jitter = 0
           /\ cfg.parallelism = 0

\* New() was called without options.
C10_Witness ==
    /\ phase = "ready"
    /\ opts = <<>>
    /\ cfg = [ZeroConfig EXCEPT !.count = 1, !.sleep = Second]

\* The error is a registered sentinel or wraps one: the wrap chain of the
\* error leads to an entry of the fatal set.
IsOrWraps(c, e) == \E i \in 1..Len(c.fatal) : Is(e, c.fatal[i])

\* C11: isFatal is true of exactly the errors that are a registered sentinel
\* or wrap one, so that an action whose first invocation returns an error
\* wrapping a registered sentinel is invoked once and never retried.
C11_FatalIsOrWraps ==
    SingleDone =>
        /\ \A j \in 1..Len(TheScript) :
               isFatal(cfg, TheScript[j]) <=> IsOrWraps(cfg, TheScript[j])
        /\ (Len(TheScript) >= 1 /\ IsOrWraps(cfg, TheScript[1]))
               => calls[1] = 1

\* C12: Single sleeps only when another attempt follows: no step is ever
\* asleep after its last attempt, an action that always fails with errors
\* that are not fatal is delayed exactly count - 1 times, and with count = 1
\* there is one invocation and no delay.
C12_NoDelayAfterLastAttempt ==
    /\ \A t \in Tasks : pc[t] = "sleep" => n[t] + 1 < cfg.count
    /\ (SingleDone /\ Len(TheScript) >= cfg.count /\ Retryable(cfg, TheScript))
           => Len(delays[1]) = cfg.count - 1
    /\ (SingleDone /\ cfg.count = 1)
           => (calls[1] = 1 /\ delays[1] = <<>>)

(***************************************************************************)
(* Properties of Config.stepDuration.                                      *)
(***************************************************************************)
\* stepDuration was applied to the attempt indices 0..n[1], and n[1] >= 1:
\* delays[1][Last] is the delay of the index Last and delays[1][Last - 1]
\* the delay of the index before, for every index in turn.
DelaysDone == kind = "delay" /\ n[1] >= 1

\* The attempt index reached.
Last == n[1]

\* The delay of the attempt index k.
Delay(k) == delays[1][k + 1]

\* a <= b of int64.
AtMost64(a, b) == ~Less64(b, a)

\* C13 as stated: for every mode the delay never decreases from an attempt
\* index to the next, and it increases from every index to the next in the
\* modes Exponential and Fibonacci.
C13_Monotone ==
    DelaysDone =>
        /\ AtMost64(Delay(Last - 1), Delay(Last))
        /\ cfg.mode \in {Exponential, Fibonacci}
               => Less64(Delay(Last - 1), Delay(Last))

\* sleep_value + jitter_value * attempt_number, as a time.Duration.
JitterWait(c, a) == Add64(I64(c.sleep), Mul64(I64(c.jitter), I64(a)))

\* C14: when a jitter is set, the wait after the attempt with the number a
\* is sleep + jitter * a, whatever the mode is.
C14_JitterPerAttempt ==
    cfg.jitter > 0 =>
        \A t \in Tasks : \A a \in 1..Len(delays[t]) :
            delays[t][a] = JitterWait(cfg, a)

(***************************************************************************)
(* Properties of the order of the steps of Config.Chain.                   *)
(***************************************************************************)
\* The Single call of step t has begun: it is running or has returned.
Begun(t) == pc[t] # "idle"

\* C15: in a Chain call a step begins (and its action is invoked) only when
\* the Single calls of all the steps before it have returned, with all their
\* attempts and sleeps behind them, and at most one action is in progress.
C15_ChainSequential ==
    kind = "chain" =>
        /\ \A t \in Tasks :
               (Begun(t) \/ calls[t] > 0) => \A u \in 1..(t - 1) : pc[u] = "done"
        /\ Cardinality({t \in Tasks : pc[t] = "fn"}) <= 1
        /\ Cardinality({t \in Tasks : pc[t] \in {"ready", "fn", "sleep", "returned"}}) <= 1

\* The second action of a chain is in progress after the first step took
\* two attempts, each followed by a sleep or the return.
C15_Witness ==
    /\ kind = "chain"
    /\ phase = "running"
    /\ Len(steps) = 2
    /\ pc = <<"done", "fn">>
    /\ calls = <<2, 1>>
    /\ Len(delays[1]) >= 1
    /\ ret[1] = Nil

(***************************************************************************)
(* Properties of the result of Config.Single.                              *)
(***************************************************************************)
\* What the most recent invocation of the action returned; no invocation
\* counts as no success.
LastResult ==
    IF calls[1] = 0 THEN errFail ELSE ScriptResult(TheScript, calls[1])

\* C16: Single returns nil if and only if the most recent invocation of the
\* action returned nil; when the attempts are used up or a fatal error broke
\* the loop, it returns a non-nil error.
C16_NilOnlyOnSuccess ==
    SingleDone =>
        /\ result = Nil <=> LastResult = Nil
        /\ (calls[1] = cfg.count /\ LastResult # Nil) => result # Nil
        /\ isFatal(cfg, LastResult) => result # Nil

\* Single returned a non-nil error when the second invocation, the most
\* recent one, returned a fatal error.
C16_Witness ==
    /\ SingleDone
    /\ cfg.count = 2
    /\ cfg.fatal = <<errFatal>>
    /\ TheScript = <<errFail, errFatal>>
    /\ calls[1] = 2
    /\ result = Wrap("test-case", errFatal)

(***************************************************************************)
(* Properties of Chain and Parallel without steps.                         *)
(***************************************************************************)
\* C17: Chain and Parallel called with no step at all return nil, and no
\* action is invoked: there is no step whose Single could begin.
C17_NoSteps ==
    (phase = "done" /\ kind \in {"chain", "parallel"} /\ steps = <<>>)
        => /\ result = Nil
           /\ egErr = Nil
           /\ calls = <<>>
           /\ pc = <<>>

\* Parallel has returned nil from a call without steps.
C17_Witness ==
    /\ phase = "done"
    /\ kind = "parallel"
    /\ steps = <<>>
    /\ result = Nil
    /\ calls = <<>>

\* Chain has returned nil from a call without steps.
C17_WitnessChain ==
    /\ phase = "done"
    /\ kind = "chain"
    /\ steps = <<>>
    /\ result = Nil
    /\ calls = <<>>

(***************************************************************************)
(* The Config is only read by the calls.                                   *)
(***************************************************************************)
\* C18: no step of a Single, Chain or Parallel call changes the Config:
\* from the return of New on, through every call made on it and every
\* interleaving of the Single calls of Parallel, count, sleep, jitter,
\* parallelism, mode, verbose and the fatal set are what New returned.
C18_ConfigUnchanged ==
    phase # "init" => cfg = NewConfig(opts)

\* Parallel has returned after both of its steps made two attempts and slept
\* in between, and the Config is the one New returned.
C18_Witness ==
    /\ ParallelDone
    /\ opts = <<Count(2), Sleep(Millisecond), Parallelism(0), Fatal(<<errFatal>>)>>
    /\ calls = <<2, 2>>
    /\ \A t \in Tasks : Len(delays[t]) >= 1
    /\ cfg = [ZeroConfig EXCEPT !.count = 2, !.sleep = Millisecond,
                                !.fatal = <<errFatal>>]

(***************************************************************************)
(* Properties of the error of Config.Parallel.                             *)
(***************************************************************************)
\* C19 as stated: when a step of Parallel fails, Parallel returns the error
\* of the step whose Single call was the first to return an error, wrapped
\* with "parallel", and nothing of the errors of the other steps.
C19_FirstReturnedWins ==
    (ParallelDone /\ firstErr # 0)
        => result = Wrap("parallel", ret[firstErr])

\* C19 amended: when a step of Parallel fails, Parallel returns the error of
\* the step whose goroutine was the first to give its error to the group,
\* wrapped with "parallel": the first error given to the group is the error
\* of the Single call of the goroutine that gives it, no later one replaces
\* it, and Parallel returns it and nothing of the errors of the other steps.
C19_FirstGivenWins ==
    [][(kind = "parallel" /\ phase = "running") =>
          /\ (egErr = Nil /\ egErr' # Nil) =>
                 \E t \in Tasks : /\ pc[t] = "returned"
                                  /\ pc'[t] = "done"
                                  /\ ret[t] # Nil
                                  /\ egErr' = ret[t]
          /\ egErr # Nil => egErr' = egErr
          /\ (phase' = "done" /\ \E t \in Tasks : ret[t] # Nil) =>
                 /\ egErr # Nil
                 /\ result' = Wrap("parallel", egErr)]_vars

\* Both steps of Parallel failed: the Single of the first step was the first
\* to return its error, the goroutine of the second step was the first to
\* give its error to the group, and Parallel returned the error of the second.
C19_Witness ==
    /\ ParallelDone
    /\ Len(steps) = 2
    /\ firstErr = 1
    /\ ret[1] # Nil
    /\ ret[2] # Nil
    /\ egErr = ret[2]
    /\ result = Wrap("parallel", ret[2])

(***************************************************************************)
(* A fatal error in one step of Config.Parallel.                           *)
(***************************************************************************)
\* Invocation j of the action of step t returned a registered sentinel.
Sentinel(t, j) == Registered(cfg, ScriptResult(steps[t].Func, j))

\* C20: in a Parallel call a step whose action returns a registered fatal
\* sentinel is not invoked again, its last invocation is the first that
\* returned the sentinel, and every other step is invoked as often as on its
\* own: up to its first success, its own fatal error, or count times.
C20_FatalStopsOneStepOnly ==
    ParallelDone =>
        \A t \in Tasks :
            (\E j \in 1..calls[t] : Sentinel(t, j)) =>
                /\ Sentinel(t, calls[t])
                /\ \A j \in 1..(calls[t] - 1) : ~Sentinel(t, j)
                /\ ret[t] = Wrap(steps[t].Name, ScriptResult(steps[t].Func, calls[t]))
                /\ \A u \in Tasks \ {t} :
                       /\ calls[u] = NaturalCalls(cfg, steps[u].Func)
                       /\ Retryable(cfg, steps[u].Func) =>
                              calls[u] = IF Len(steps[u].Func) < cfg.count
                                         THEN Len(steps[u].Func) + 1
                                         ELSE cfg.count

\* Without a limit, the first step stopped at the sentinel of its first
\* invocation and the second step still failed twice, all that count allows.
C20_Witness ==
    /\ ParallelDone
    /\ cfg.parallelism = 0
    /\ cfg.count = 2
    /\ cfg.fatal = <<errFatal>>
    /\ Len(steps) = 2
    /\ steps[1].Func = <<errFatal, errFatal>>
    /\ steps[2].Func = <<errFail, errFail>>
    /\ calls = <<1, 2>>
    /\ ret[2] = Wrap("B", errFail)

(***************************************************************************)
(* The error Config.Single returns.                                        *)
(***************************************************************************)
\* C21: when Single returns an error, after the last allowed attempt or a
\* fatal error, the error wraps what the final invocation of the action
\* returned, under the name of the step, and it is not the wrapped error of
\* an earlier invocation that returned a different error.
C21_LastErrorReturned ==
    (SingleDone /\ result # Nil) =>
        /\ result = Wrap("test-case", ScriptResult(TheScript, calls[1]))
        /\ \A j \in 1..(calls[1] - 1) :
               ScriptResult(TheScript, j) # ScriptResult(TheScript, calls[1])
                   => result # Wrap("test-case", ScriptResult(TheScript, j))

\* Two attempts were allowed and nothing is fatal: the first invocation
\* returned errFail, the second an error wrapping errFatal, and Single
\* returned the second.
C21_Witness ==
    /\ SingleDone
    /\ cfg.count = 2
    /\ cfg.fatal = <<>>
    /\ TheScript = <<errFail, errWrapped, errFail>>
    /\ calls[1] = 2
    /\ result = Wrap("test-case", errWrapped)

(***************************************************************************)
(* The delays of a call, against the formulas of the modes.                *)
(***************************************************************************)
\* fib(0) = 0, fib(1) = 1, fib(i) = fib(i-1) + fib(i-2), over the integers.
RECURSIVE Fib(_)
Fib(i) == IF i = 0 THEN 0 ELSE IF i = 1 THEN 1 ELSE Fib(i - 1) + Fib(i - 2)

\* delay(i) of the formulas, in nanoseconds, over the integers.
DelayFormula(c, i) ==
    CASE c.mode = Simple -> c.sleep + c.jitter * i
      [] c.mode = Linear -> c.sleep * i + c.jitter
      [] c.mode = Exponential -> c.sleep * (2 ^ i) + c.jitter
      [] c.mode = Fibonacci -> c.sleep * Fib(i) + c.jitter

\* C22: the sleep after the failed attempt with the 0-based index k is
\* delay(k + 1) of the formula of the mode: the first sleep of every Single
\* call uses the index 1, the second the index 2, and so on.
C22_DelayOfNextIndex ==
    \A t \in Tasks : \A a \in 1..Len(delays[t]) :
        delays[t][a] = I64(DelayFormula(cfg, a))

\* Single failed twice in the mode Exponential with a sleep of 1ms and a
\* jitter of 2ms: it slept 1ms*2 + 2ms after the attempt 0 and 1ms*4 + 2ms
\* after the attempt 1.
C22_Witness ==
    /\ SingleDone
    /\ cfg.mode = Exponential
    /\ cfg.sleep = Millisecond
    /\ cfg.jitter = 2 * Millisecond
    /\ calls[1] = 2
    /\ delays[1] = <<I64(4 * Millisecond), I64(6 * Millisecond)>>

(***************************************************************************)
(* Termination of the calls.                                               *)
(***************************************************************************)
\* C23: every call of Single, Chain and Parallel returns, given that every
\* invocation of an action returns and every sleep ends; a Parallel call
\* with a limit below the number of its steps returns too, every step
\* having been started.
C23_CallsReturn ==
    (phase = "running")
        ~> /\ phase = "done"
           /\ kind = "parallel" => \A t \in Tasks : pc[t] = "done" /\ calls[t] >= 1

\* Parallel has returned under a limit of one goroutine with two steps that
\* both made two attempts.
C23_Witness ==
    /\ ParallelDone
    /\ cfg.parallelism = 1
    /\ Len(steps) = 2
    /\ calls = <<2, 2>>
    /\ pc = <<"done", "done">>

(***************************************************************************)
(* The range of the delays.                                                *)
(***************************************************************************)
\* C24: in every mode the delay of every attempt index from 1 on is not
\* negative and not below the configured sleep: the 64-bit product of the
\* formula never wraps.  stepDuration does not read c.count, so the delay of
\* an index is the delay under every count that reaches it.
C24_NoWrap ==
    DelaysDone =>
        /\ ~Negative(Delay(Last))
        /\ AtMost64(I64(cfg.sleep), Delay(Last))

(***************************************************************************)
(* The goroutines of one Parallel call.                                    *)
(***************************************************************************)
\* C25: in a Parallel call over distinct steps no two invocations of the
\* action of one step are in progress at the same time, every step is
\* started once (a goroutine is started from idle only and never becomes
\* idle again), and an invocation begins only when the one before has
\* returned, with the attempt index that counts the invocations before it.
C25_OneTaskInOrder ==
    [][(kind = "parallel" /\ phase = "running") =>
          /\ \A t, u \in Tasks :
                 (pc[t] = "fn" /\ pc[u] = "fn" /\ Step(t).Name = Step(u).Name)
                     => t = u
          /\ \A t \in Tasks :
                 /\ (pc'[t] = "ready" /\ pc[t] # "ready") => pc[t] = "idle"
                 /\ pc[t] # "idle" => pc'[t] # "idle"
                 /\ calls'[t] # calls[t] =>
                        /\ calls'[t] = calls[t] + 1
                        /\ pc[t] \in {"ready", "sleep"}
                        /\ pc'[t] = "fn"
                        /\ n'[t] = calls[t]]_vars

\* Two steps of a Parallel call are inside their actions at the same time,
\* the first in its second attempt.
C25_Witness ==
    /\ kind = "parallel"
    /\ phase = "running"
    /\ pc = <<"fn", "fn">>
    /\ calls = <<2, 1>>
    /\ n = <<1, 0>>

(***************************************************************************)
(* What validation leaves alone.                                           *)
(***************************************************************************)
\* Verbose as the options give it: that of the last Verbose option, and
\* false when there is none.
GivenVerbose(os) ==
    LET at == {i \in 1..Len(os) : os[i].op = "Verbose"}
    IN  IF at = {} THEN FALSE
        ELSE os[CHOOSE i \in at : \A j \in at : j <= i].b

\* C26: a count >= 1, a sleep > 0, a jitter >= 0 and a parallelism >= 0 that
\* the options give are the values of the Config of New, verbose and mode
\* are those the options give whatever the other fields are, and validate
\* applied to the Config of New changes nothing.
C26_ValidKept ==
    phase = "ready" =>
        /\ Given(opts, "Count") >= 1 => cfg.count = Given(opts, "Count")
        /\ Given(opts, "Sleep") > 0 => cfg.sleep = Given(opts, "Sleep")
        /\ Given(opts, "Jitter") >= 0 => cfg.jitter = Given(opts, "Jitter")
        /\ Given(opts, "Parallelism") >= 0
               => cfg.parallelism = Given(opts, "Parallelism")
        /\ cfg.verbose = GivenVerbose(opts)
        /\ cfg.mode = Given(opts, "Mode")
        /\ validate(cfg) = cfg

\* New was given a valid count and sleep with Verbose and a mode, and its
\* Config holds the four values, jitter and parallelism being zero.
C26_Witness ==
    /\ phase = "ready"
    /\ opts = <<Count(MaxCount), Sleep(Millisecond), Verbose(TRUE), Mode(Linear)>>
    /\ cfg = [ZeroConfig EXCEPT !.count = MaxCount, !.sleep = Millisecond,
                                !.verbose = TRUE, !.mode = Linear]
====
